---- MODULE Spec2Model ----
(***************************************************************************)
(* mongodeck server (src/server.js): the connection cache `clients` with   *)
(* getClient, and the POST /api/command handler with its JSON-first,       *)
(* shell-style-second command interpretation.                              *)
(*                                                                         *)
(* Two specifications share the module:                                    *)
(*   SpecReg  the connection cache under concurrent getClient calls and    *)
(*            close notifications (the command variables stay at rest);    *)
(*   SpecCmd  one /api/command request at a time on an already resolved    *)
(*            connection (the cache variables stay at rest).               *)
(*   SpecRes  the callers of getClient: the withMongo middleware and the   *)
(*            /api/connect route, over the same cache.                     *)
(*   SpecCli  the client module (services/api): connect(config) and the    *)
(*            x-mongo-uri header of the API calls.                         *)
(***************************************************************************)
EXTENDS Integers, Sequences, FiniteSets, TLC

(***************************************************************************)
(* Bounds of the model.                                                    *)
(***************************************************************************)
NumCallers == 2
MaxHandles == 2
NumConnects == 2

\* the connection strings clients present (x-mongo-uri header, /api/connect body)
Keys == {"uriA", "uriB"}
Callers == 1..NumCallers
Handles == 1..MaxHandles

\* the absent map entry / no handle (`undefined` in the source)
NoClient == 0
\* no uri bound yet
NoKey == "none"

VARIABLES
    clients,        \* the cache: key (uri) -> handle or NoClient
    hstate,         \* per MongoClient object: "unused", "connecting", "open", "closed", "failed"
    hkey,           \* the uri a MongoClient object was constructed with
    cpc,            \* per getClient call: "idle", "awaitConnect", "returned", "threw"
    ckey,           \* the uri argument of the call
    cclient,        \* the local `client` of the call (miss path)
    cret,           \* the value the call returned
    overlapped,     \* pairs of calls for one uri that were pending on connect together
    closedSinceGet, \* per key: the cached handle closed and no getClient(key) started since
    rpc,            \* the /api/command request: "idle", "awaitDb", "done"
    typed,          \* the parts of the command text as the client typed them
    command,        \* req.body.command
    dbCalls,        \* the driver calls the request issued, in order
    tryBlock,       \* the try block enclosing the awaited call
    shellApplied,   \* control entered the catch (parseError) block
    response,       \* the response sent
    route,          \* per request slot: who called getClient: "none", "withMongo", "connect"
    cerr,           \* the message of the error connect() rejected with
    nextCalled,     \* withMongo invoked next(): the downstream handler runs
    dbClient,       \* req.dbClient
    sent,           \* the responses withMongo / the connect route sent, in order
    activeConfig,   \* the client module's activeConfig
    kpc,            \* per connect(config) call of the client: "idle", "awaitFetch",
                    \* and how the last call ended: "resolved", "threw"
    kcfg,           \* the config argument of the call
    kuri,           \* the uri the call posted to /api/connect
    connected,      \* the <<config, uri>> pairs of the connect calls that succeeded
    api             \* the last API call of the client: its outcome and x-mongo-uri

regVars == <<clients, hstate, hkey, cpc, ckey, cclient, cret, overlapped, closedSinceGet>>

cmdVars == <<rpc, typed, command, dbCalls, tryBlock, shellApplied, response>>

resVars == <<route, cerr, nextCalled, dbClient, sent>>

cliVars == <<activeConfig, kpc, kcfg, kuri, connected, api>>

vars == <<regVars, cmdVars, resVars, cliVars>>

----------------------------------------------------------------------------
(***************************************************************************)
(* Connection cache: getClient (server.js 19-35).                          *)
(***************************************************************************)

InitReg ==
    /\ clients = [k \in Keys |-> NoClient]
    /\ hstate = [h \in Handles |-> "unused"]
    /\ hkey = [h \in Handles |-> NoKey]
    /\ cpc = [c \in Callers |-> "idle"]
    /\ ckey = [c \in Callers |-> NoKey]
    /\ cclient = [c \in Callers |-> NoClient]
    /\ cret = [c \in Callers |-> NoClient]
    /\ overlapped = {}
    /\ closedSinceGet = [k \in Keys |-> FALSE]

\* `if (!clients[uri])`: the test that guards creation
CacheMiss(uri) == clients[uri] = NoClient

\* calls suspended at `await client.connect()` for uri
PendingOn(uri) == {d \in Callers : cpc[d] = "awaitConnect" /\ ckey[d] = uri}

\* getClient(uri), miss path up to the await: new MongoClient(uri); client.connect()
GetClientMiss(c, uri) ==
    /\ cpc[c] = "idle"
    /\ CacheMiss(uri)
    /\ \E h \in Handles :
        /\ hstate[h] = "unused"
        /\ \A g \in Handles : hstate[g] = "unused" => h <= g
        /\ hstate' = [hstate EXCEPT ![h] = "connecting"]
        /\ hkey' = [hkey EXCEPT ![h] = uri]
        /\ cclient' = [cclient EXCEPT ![c] = h]
    /\ cpc' = [cpc EXCEPT ![c] = "awaitConnect"]
    /\ ckey' = [ckey EXCEPT ![c] = uri]
    /\ overlapped' = overlapped \cup {<<c, d>> : d \in PendingOn(uri)}
                                \cup {<<d, c>> : d \in PendingOn(uri)}
    /\ closedSinceGet' = [closedSinceGet EXCEPT ![uri] = FALSE]
    /\ UNCHANGED <<clients, cret>>
    /\ UNCHANGED cmdVars

\* getClient(uri), hit path: `return clients[uri]`
GetClientHit(c, uri) ==
    /\ cpc[c] = "idle"
    /\ ~CacheMiss(uri)
    /\ cpc' = [cpc EXCEPT ![c] = "returned"]
    /\ ckey' = [ckey EXCEPT ![c] = uri]
    /\ cret' = [cret EXCEPT ![c] = clients[uri]]
    /\ closedSinceGet' = [closedSinceGet EXCEPT ![uri] = FALSE]
    /\ UNCHANGED <<clients, hstate, hkey, cclient, overlapped>>
    /\ UNCHANGED cmdVars

\* connect() resolved: clients[uri] = client; client.on('close', ...); return clients[uri]
ConnectResolved(c) ==
    /\ cpc[c] = "awaitConnect"
    /\ hstate' = [hstate EXCEPT ![cclient[c]] = "open"]
    /\ clients' = [clients EXCEPT ![ckey[c]] = cclient[c]]
    /\ cret' = [cret EXCEPT ![c] = clients'[ckey[c]]]
    /\ cpc' = [cpc EXCEPT ![c] = "returned"]
    /\ UNCHANGED <<hkey, ckey, cclient, overlapped, closedSinceGet>>
    /\ UNCHANGED cmdVars

\* a getClient that stores the client before awaiting connect(): after a
\* rejection the entry holds the failed client
ConnectRejectedStored(c) ==
    /\ cpc[c] = "awaitConnect"
    /\ hstate' = [hstate EXCEPT ![cclient[c]] = "failed"]
    /\ clients' = [clients EXCEPT ![ckey[c]] = cclient[c]]
    /\ cpc' = [cpc EXCEPT ![c] = "threw"]
    /\ UNCHANGED <<hkey, ckey, cclient, cret, overlapped, closedSinceGet>>
    /\ UNCHANGED cmdVars

\* connect() rejected: the await throws, nothing is stored
ConnectRejected(c) ==
    /\ cpc[c] = "awaitConnect"
    /\ hstate' = [hstate EXCEPT ![cclient[c]] = "failed"]
    /\ cpc' = [cpc EXCEPT ![c] = "threw"]
    /\ UNCHANGED <<clients, hkey, ckey, cclient, cret, overlapped, closedSinceGet>>
    /\ UNCHANGED cmdVars

\* the 'close' listener of handle h: `delete clients[uri]`
CloseHandler(h) ==
    /\ hstate[h] = "open"
    /\ hstate' = [hstate EXCEPT ![h] = "closed"]
    /\ clients' = [clients EXCEPT ![hkey[h]] = NoClient]
    /\ closedSinceGet' = [closedSinceGet EXCEPT ![hkey[h]] = (clients[hkey[h]] = h) \/ @]
    /\ UNCHANGED <<hkey, cpc, ckey, cclient, cret, overlapped>>
    /\ UNCHANGED cmdVars

\* the caller consumed the outcome; the slot is free for a later call
CallDone(c) ==
    /\ cpc[c] \in {"returned", "threw"}
    /\ cpc' = [cpc EXCEPT ![c] = "idle"]
    /\ ckey' = [ckey EXCEPT ![c] = NoKey]
    /\ cclient' = [cclient EXCEPT ![c] = NoClient]
    /\ cret' = [cret EXCEPT ![c] = NoClient]
    /\ overlapped' = {p \in overlapped : p[1] # c /\ p[2] # c}
    /\ UNCHANGED <<clients, hstate, hkey, closedSinceGet>>
    /\ UNCHANGED cmdVars

----------------------------------------------------------------------------
(***************************************************************************)
(* The callers of getClient: the withMongo middleware (server.js 37-52)    *)
(* and POST /api/connect (server.js 75-83).  The continuation after        *)
(* `await getClient(uri)` runs in the same turn as getClient's return.     *)
(***************************************************************************)

Routes == {"withMongo", "connect"}

\* the messages client.connect() rejects with
HandshakeMessages == {"connect ECONNREFUSED", "Authentication failed"}
NoMessage == ""

\* res.status(status).json({error}) / res.json({success: true})
Reply(status, error) == [status |-> status, error |-> error]

InitRes ==
    /\ route = [c \in Callers |-> "none"]
    /\ cerr = [c \in Callers |-> NoMessage]
    /\ nextCalled = [c \in Callers |-> FALSE]
    /\ dbClient = [c \in Callers |-> NoClient]
    /\ sent = [c \in Callers |-> <<>>]

\* a withMongo that calls next() after the catch block as well
NextAlways(outcome) == TRUE

\* withMongo: next() is the last statement of the try block (server.js 44-47)
WithMongoInvokesNext(outcome) == outcome = "returned"

\* withMongo: the catch block answers with a fixed message (server.js 48-51)
WithMongoReply(outcome) ==
    IF outcome = "threw"
    THEN <<Reply(500, "Failed to connect to MongoDB instance")>>
    ELSE <<>>

\* a connect route that answers as withMongo does
ConnectReplyFixed(outcome, msg) ==
    IF outcome = "threw"
    THEN <<Reply(500, "Failed to connect to MongoDB instance")>>
    ELSE <<Reply(200, NoMessage)>>

\* /api/connect: res.json({success: true}) or 500 {error: e.message} (server.js 78-82)
ConnectReply(outcome, msg) ==
    IF outcome = "threw"
    THEN <<Reply(500, msg)>>
    ELSE <<Reply(200, NoMessage)>>

\* the route's continuation after `await getClient(uri)` returned handle or
\* threw an error with message msg
Settle(c, r, outcome, handle, msg) ==
    /\ cerr' = [cerr EXCEPT ![c] = msg]
    /\ nextCalled' = [nextCalled EXCEPT ![c] =
                         r = "withMongo" /\ WithMongoInvokesNext(outcome)]
    /\ dbClient' = [dbClient EXCEPT ![c] =
                       IF r = "withMongo" /\ outcome = "returned" THEN handle ELSE NoClient]
    /\ sent' = [sent EXCEPT ![c] =
                   IF r = "withMongo" THEN WithMongoReply(outcome)
                                      ELSE ConnectReply(outcome, msg)]

\* withMongo without the x-mongo-uri header: 400, return (server.js 38-41)
WithMongoMissing(c) ==
    /\ cpc[c] = "idle"
    /\ route[c] = "none"
    /\ route' = [route EXCEPT ![c] = "withMongo"]
    /\ sent' = [sent EXCEPT ![c] = <<Reply(400, "Missing MongoDB URI header")>>]
    /\ UNCHANGED <<cerr, nextCalled, dbClient>>
    /\ UNCHANGED regVars
    /\ UNCHANGED cmdVars

\* route r calls getClient(uri) and is suspended at connect()
RouteMiss(c, r, uri) ==
    /\ route[c] = "none"
    /\ GetClientMiss(c, uri)
    /\ route' = [route EXCEPT ![c] = r]
    /\ UNCHANGED <<cerr, nextCalled, dbClient, sent>>

\* route r calls getClient(uri), which returns the cached handle
RouteHit(c, r, uri) ==
    /\ route[c] = "none"
    /\ GetClientHit(c, uri)
    /\ route' = [route EXCEPT ![c] = r]
    /\ Settle(c, r, "returned", clients[uri], NoMessage)

\* connect() resolved and the route continues
RouteResolved(c) ==
    /\ route[c] # "none"
    /\ ConnectResolved(c)
    /\ UNCHANGED route
    /\ Settle(c, route[c], "returned", cret'[c], NoMessage)

\* connect() rejected with msg and the route's catch block runs
RouteRejected(c, msg) ==
    /\ route[c] # "none"
    /\ ConnectRejected(c)
    /\ UNCHANGED route
    /\ Settle(c, route[c], "threw", NoClient, msg)

\* a 'close' event while requests are in progress
RouteClose(h) ==
    /\ CloseHandler(h)
    /\ UNCHANGED resVars

\* the request is over (answered, or handed to the downstream handler)
RouteDone(c) ==
    /\ route[c] # "none"
    /\ \/ CallDone(c)
       \/ /\ cpc[c] = "idle"
          /\ UNCHANGED regVars
          /\ UNCHANGED cmdVars
    /\ route' = [route EXCEPT ![c] = "none"]
    /\ cerr' = [cerr EXCEPT ![c] = NoMessage]
    /\ nextCalled' = [nextCalled EXCEPT ![c] = FALSE]
    /\ dbClient' = [dbClient EXCEPT ![c] = NoClient]
    /\ sent' = [sent EXCEPT ![c] = <<>>]


----------------------------------------------------------------------------
(***************************************************************************)
(* Text.  A string is a sequence of one-character strings; the operators   *)
(* below are the JavaScript string and RegExp primitives the command       *)
(* handler uses (server.js 304-476).                                       *)
(***************************************************************************)

LowerLetters == <<"a","b","c","d","e","f","g","h","i","j","k","l","m",
                  "n","o","p","q","r","s","t","u","v","w","x","y","z">>
UpperLetters == <<"A","B","C","D","E","F","G","H","I","J","K","L","M",
                  "N","O","P","Q","R","S","T","U","V","W","X","Y","Z">>
DigitChars == <<"0","1","2","3","4","5","6","7","8","9">>

Range(f) == {f[i] : i \in DOMAIN f}

\* String.prototype.toLowerCase, per character
ToLowerChar(ch) ==
    IF ch \in Range(UpperLetters)
    THEN LowerLetters[CHOOSE i \in DOMAIN UpperLetters : UpperLetters[i] = ch]
    ELSE ch

toLowerCase(s) == [i \in 1..Len(s) |-> ToLowerChar(s[i])]

\* \d, \w and \s of the regular expressions
IsDigit(ch) == ch \in Range(DigitChars)
IsWord(ch) == ch \in Range(LowerLetters) \cup Range(UpperLetters) \cup Range(DigitChars) \cup {"_"}
IsSpace(ch) == ch \in {" ", "\n", "\t", "\r"}
\* line terminators, which `.` does not match
IsLineTerminator(ch) == ch \in {"\n", "\r"}

SetMin(S) == CHOOSE x \in S : \A y \in S : x <= y

\* String.prototype.trim
trim(s) ==
    LET keep == {i \in 1..Len(s) : ~IsSpace(s[i])}
    IN IF keep = {} THEN <<>>
       ELSE SubSeq(s, SetMin(keep), CHOOSE x \in keep : \A y \in keep : y <= x)

\* String.prototype.substring(n)
substring(s, n) == SubSeq(s, n + 1, Len(s))

\* the literal p occurs in s at index i
MatchAt(s, i, p) ==
    /\ i >= 1
    /\ i + Len(p) - 1 <= Len(s)
    /\ \A j \in 1..Len(p) : s[i + j - 1] = p[j]

\* the same under the regular expression's /i flag
MatchAtCI(s, i, p) == MatchAt(toLowerCase(s), i, toLowerCase(p))

\* String.prototype.startsWith
startsWith(s, p) == MatchAt(s, 1, p)

\* the character classes the regular expressions repeat: \d, \w, \s, [^)],
\* and for JSON.parse its whitespace and the inside of a string literal
InClass(ch, cls) ==
    IF cls = "digit" THEN IsDigit(ch)
    ELSE IF cls = "word" THEN IsWord(ch)
    ELSE IF cls = "space" THEN IsSpace(ch)
    ELSE IF cls = "notClose" THEN ch # ")"
    ELSE IF cls = "jsonSpace" THEN ch \in {" ", "\n", "\t", "\r"}
    ELSE ch # "\""

\* index after the longest run of characters of class cls that starts at i
RunEnd(s, i, cls) ==
    LET stops == {j \in i..Len(s) : ~InClass(s[j], cls)}
    IN IF stops = {} THEN Len(s) + 1 ELSE SetMin(stops)

\* the result of String.prototype.match: null, or the first capture group
NoMatch == [matched |-> FALSE, group |-> <<>>]
Matched(g) == [matched |-> TRUE, group |-> g]

\* parseInt of a digit string
RECURSIVE parseInt(_)
parseInt(ds) ==
    IF ds = <<>> THEN 0
    ELSE 10 * parseInt(SubSeq(ds, 1, Len(ds) - 1))
         + ((CHOOSE i \in DOMAIN DigitChars : DigitChars[i] = ds[Len(ds)]) - 1)

\* s.match(/name\(([^)]*)\)/i): the leftmost `name(` that has a `)` after it;
\* the group is the text up to the first `)`
MatchCall(s, name) ==
    LET open == name \o <<"(">>
        ok(i) == /\ MatchAtCI(s, i, open)
                 /\ \E j \in (i + Len(open))..Len(s) : s[j] = ")"
        starts == {i \in 1..Len(s) : ok(i)}
    IN IF starts = {} THEN NoMatch
       ELSE LET a == SetMin(starts) + Len(open)
            IN Matched(SubSeq(s, a, RunEnd(s, a, "notClose") - 1))

\* s.match(/limit\((\d+)\)/i)
MatchLimit(s) ==
    LET open == <<"l","i","m","i","t","(">>
        ok(i) == /\ MatchAtCI(s, i, open)
                 /\ LET a == i + Len(open)
                        e == RunEnd(s, a, "digit")
                    IN e > a /\ e <= Len(s) /\ s[e] = ")"
        starts == {i \in 1..Len(s) : ok(i)}
    IN IF starts = {} THEN NoMatch
       ELSE LET a == SetMin(starts) + Len(open)
            IN Matched(SubSeq(s, a, RunEnd(s, a, "digit") - 1))

\* s.match(/name\(['"](\w+)['"]\)/i)
MatchQuotedName(s, name) ==
    LET open == name \o <<"(">>
        IsQuote(ch) == ch \in {"'", "\""}
        ok(i) == /\ MatchAtCI(s, i, open)
                 /\ LET q == i + Len(open)
                        e == RunEnd(s, q + 1, "word")
                    IN /\ q <= Len(s) /\ IsQuote(s[q])
                       /\ e > q + 1
                       /\ e + 1 <= Len(s) /\ IsQuote(s[e]) /\ s[e + 1] = ")"
        starts == {i \in 1..Len(s) : ok(i)}
    IN IF starts = {} THEN NoMatch
       ELSE LET a == SetMin(starts) + Len(open) + 1
            IN Matched(SubSeq(s, a, RunEnd(s, a, "word") - 1))

\* s.match(/keyword\s+(\w+)/)
MatchKeywordName(s, keyword) ==
    LET ok(i) == /\ MatchAt(s, i, keyword)
                 /\ LET w == i + Len(keyword)
                        a == RunEnd(s, w, "space")
                    IN a > w /\ a <= Len(s) /\ IsWord(s[a])
        starts == {i \in 1..Len(s) : ok(i)}
    IN IF starts = {} THEN NoMatch
       ELSE LET a == RunEnd(s, SetMin(starts) + Len(keyword), "space")
            IN Matched(SubSeq(s, a, RunEnd(s, a, "word") - 1))

----------------------------------------------------------------------------
(***************************************************************************)
(* JSON.parse (server.js 304, 334, 352, 361, 370, 379, 395, 408).          *)
(* The grammar of RFC 8259 without string escapes and without negative,    *)
(* fractional or exponent numbers: none of the command texts below uses    *)
(* them.  A parsed value is kept as its type and its canonical text (the   *)
(* text with the insignificant whitespace removed), so two texts parse to  *)
(* the same document exactly when their canonical texts are equal.         *)
(***************************************************************************)

IsJsonSpace(ch) == InClass(ch, "jsonSpace")

SkipWs(s, i) == RunEnd(s, i, "jsonSpace")

\* index after the string literal that opens at i, 0 when it is malformed
ParseString(s, i) ==
    LET e == RunEnd(s, i + 1, "notQuote")
    IN IF e > Len(s) THEN 0
       ELSE IF \E j \in (i + 1)..(e - 1) : IsLineTerminator(s[j]) \/ s[j] = "\t" THEN 0
       ELSE e + 1

\* index after the number that starts at i (no leading zeros), 0 when malformed
ParseNumber(s, i) ==
    LET e == RunEnd(s, i, "digit")
    IN IF s[i] = "0" /\ e > i + 1 THEN 0 ELSE e

JsonLiterals == {<<"t","r","u","e">>, <<"f","a","l","s","e">>, <<"n","u","l","l">>}

RECURSIVE ParseValue(_, _), ParseMembers(_, _), ParseElements(_, _)

\* index after the JSON value that starts at i, 0 when there is none
ParseValue(s, i) ==
    IF i > Len(s) THEN 0
    ELSE IF s[i] = "{" THEN
        LET j == SkipWs(s, i + 1)
        IN IF j <= Len(s) /\ s[j] = "}" THEN j + 1 ELSE ParseMembers(s, j)
    ELSE IF s[i] = "[" THEN
        LET j == SkipWs(s, i + 1)
        IN IF j <= Len(s) /\ s[j] = "]" THEN j + 1 ELSE ParseElements(s, j)
    ELSE IF s[i] = "\"" THEN ParseString(s, i)
    ELSE IF IsDigit(s[i]) THEN ParseNumber(s, i)
    ELSE IF \E lit \in JsonLiterals : MatchAt(s, i, lit)
        THEN i + Len(CHOOSE lit \in JsonLiterals : MatchAt(s, i, lit))
    ELSE 0

\* "key" : value ( , "key" : value )* }
ParseMembers(s, i) ==
    IF i > Len(s) \/ s[i] # "\"" THEN 0
    ELSE LET k == ParseString(s, i)
             c == SkipWs(s, k)
         IN IF k = 0 \/ c > Len(s) \/ s[c] # ":" THEN 0
            ELSE LET v == ParseValue(s, SkipWs(s, c + 1))
                     n == SkipWs(s, v)
                 IN IF v = 0 \/ n > Len(s) THEN 0
                    ELSE IF s[n] = "}" THEN n + 1
                    ELSE IF s[n] = "," THEN ParseMembers(s, SkipWs(s, n + 1))
                    ELSE 0

\* value ( , value )* ]
ParseElements(s, i) ==
    LET v == ParseValue(s, i)
        n == SkipWs(s, v)
    IN IF v = 0 \/ n > Len(s) THEN 0
       ELSE IF s[n] = "]" THEN n + 1
       ELSE IF s[n] = "," THEN ParseElements(s, SkipWs(s, n + 1))
       ELSE 0

\* the whole text is one JSON value surrounded by optional whitespace
IsJson(s) ==
    LET e == ParseValue(s, SkipWs(s, 1))
    IN e # 0 /\ SkipWs(s, e) > Len(s)

\* the text without the whitespace outside its string literals
RECURSIVE Canonical(_, _, _)
Canonical(s, i, inString) ==
    IF i > Len(s) THEN <<>>
    ELSE IF ~inString /\ IsJsonSpace(s[i]) THEN Canonical(s, i + 1, inString)
    ELSE <<s[i]>> \o Canonical(s, i + 1, IF s[i] = "\"" THEN ~inString ELSE inString)

JsonType(s) ==
    LET ch == s[SkipWs(s, 1)]
    IN IF ch = "{" THEN "object"
       ELSE IF ch = "[" THEN "array"
       ELSE IF ch = "\"" THEN "string"
       ELSE IF IsDigit(ch) THEN "number"
       ELSE "literal"

\* what JSON.parse yields: a value, or a SyntaxError
JsonFail == [ok |-> FALSE, type |-> "none", doc |-> <<>>]
JsonValue(t, d) == [ok |-> TRUE, type |-> t, doc |-> d]

JSONparse(s) ==
    IF IsJson(s) THEN JsonValue(JsonType(s), Canonical(s, 1, FALSE)) ELSE JsonFail

\* the defaults `{}` and `[]` of the shell-style collection methods
EmptyObject == JsonValue("object", <<"{", "}">>)
EmptyArray == JsonValue("array", <<"[", "]">>)

----------------------------------------------------------------------------
(***************************************************************************)
(* The string literals of the command handler (server.js 312-470).         *)
(***************************************************************************)

K_db == <<"d","b",".">>
K_find == <<"f","i","n","d">>
K_findOne == <<"f","i","n","d","O","n","e">>
K_countDocuments == <<"c","o","u","n","t","D","o","c","u","m","e","n","t","s">>
K_aggregate == <<"a","g","g","r","e","g","a","t","e">>
K_createIndex == <<"c","r","e","a","t","e","I","n","d","e","x">>
K_drop == <<"d","r","o","p">>
K_adminCommand == <<"a","d","m","i","n","C","o","m","m","a","n","d">>
K_runCommand == <<"r","u","n","C","o","m","m","a","n","d">>
K_listDatabasesCall == <<"l","i","s","t","D","a","t","a","b","a","s","e","s","(",")">>
K_listCollectionsCall == <<"l","i","s","t","C","o","l","l","e","c","t","i","o","n","s","(",")">>
K_statsCall == <<"s","t","a","t","s","(",")">>
K_serverStatusCall == <<"s","e","r","v","e","r","S","t","a","t","u","s","(",")">>
K_dropDatabaseCall == <<"d","r","o","p","D","a","t","a","b","a","s","e","(",")">>
K_createCollection == <<"c","r","e","a","t","e","C","o","l","l","e","c","t","i","o","n">>
K_dropCollection == <<"d","r","o","p","C","o","l","l","e","c","t","i","o","n">>
K_stats == <<"s","t","a","t","s">>
K_dbstats == <<"d","b","s","t","a","t","s">>
K_serverstatus == <<"s","e","r","v","e","r","s","t","a","t","u","s">>
K_listdatabases == <<"l","i","s","t","d","a","t","a","b","a","s","e","s">>
K_listcollections == <<"l","i","s","t","c","o","l","l","e","c","t","i","o","n","s">>
K_dropdatabase == <<"d","r","o","p","d","a","t","a","b","a","s","e">>
K_createcollection == <<"c","r","e","a","t","e","c","o","l","l","e","c","t","i","o","n">>
K_dropcollection == <<"d","r","o","p","c","o","l","l","e","c","t","i","o","n">>

----------------------------------------------------------------------------
(***************************************************************************)
(* POST /api/command: what the handler does with a command text before it  *)
(* first awaits the database (server.js 301-479).  A plan is either one    *)
(* database call or a thrown Error.                                        *)
(***************************************************************************)

\* `let limit = 10` (server.js 328)
DefaultLimit == 10
\* the operation has no limit
NoLimit == 0 - 1

NoArg == [ok |-> TRUE, type |-> "none", doc |-> <<>>]

\* one call on the driver: fn on the db(), db().admin() or db.collection(col)
DbOp(fn, scope, col, arg, limit) ==
    [fn |-> fn, scope |-> scope, col |-> col, arg |-> arg, limit |-> limit]
NoOp == DbOp("none", "none", <<>>, NoArg, NoLimit)

\* new Error(msg); detail is the text interpolated into the message
Err(msg, detail) == [msg |-> msg, detail |-> detail]
NoError == Err("", <<>>)

\* inner names the try block that encloses the call: "json" for the structured
\* form (its catch runs the shell grammar), the message its catch throws for
\* adminCommand / runCommand (server.js 398, 410), "none" for the outer try only
Call(op, inner) == [act |-> "call", op |-> op, inner |-> inner, err |-> NoError]
Throw(err) == [act |-> "throw", op |-> NoOp, inner |-> "none", err |-> err]

\* the messages the parser itself raises
ParserDiagnostics ==
    { "Unsupported collection method", "Invalid collection method syntax",
      "Invalid adminCommand syntax", "Invalid runCommand syntax",
      "Invalid createCollection syntax. Use: db.createCollection",
      "Invalid dropCollection syntax. Use: db.dropCollection",
      "Unsupported db method",
      "Invalid createCollection syntax. Use: createCollection <name>",
      "Invalid dropCollection syntax. Use: dropCollection <name>",
      "Unsupported command" }

\* the optional filter / pipeline / index specification: the text captured by
\* /name\(([^)]*)\)/i in args, JSON-parsed, else the default
\* (server.js 331-338, 349-354, 358-363, 367-372, 376-381)
LenientArg(args, name, default) ==
    LET m == MatchCall(args, name)
    IN IF m.matched /\ trim(m.group) # <<>> /\ JSONparse(m.group).ok
       THEN JSONparse(m.group)
       ELSE default

\* the limit of find (server.js 341-344)
FindLimit(args) ==
    LET m == MatchLimit(args)
    IN IF m.matched THEN parseInt(m.group) ELSE DefaultLimit

\* dbMethod.match(/^[\w]+\./) (server.js 316)
IsCollectionForm(dbMethod) ==
    LET e == RunEnd(dbMethod, 1, "word")
    IN e > 1 /\ e <= Len(dbMethod) /\ dbMethod[e] = "."

\* the dispatch on the lower-cased method name (server.js 325-387)
CollectionMethodPlan(colName, method, args) ==
    IF method = toLowerCase(K_find) THEN
        Call(DbOp("find", "collection", colName,
                  LenientArg(args, K_find, EmptyObject), FindLimit(args)), "none")
    ELSE IF method = toLowerCase(K_findOne) THEN
        Call(DbOp("findOne", "collection", colName,
                  LenientArg(args, K_findOne, EmptyObject), NoLimit), "none")
    ELSE IF method = toLowerCase(K_countDocuments) THEN
        Call(DbOp("countDocuments", "collection", colName,
                  LenientArg(args, K_countDocuments, EmptyObject), NoLimit), "none")
    ELSE IF method = toLowerCase(K_aggregate) THEN
        Call(DbOp("aggregate", "collection", colName,
                  LenientArg(args, K_aggregate, EmptyArray), NoLimit), "none")
    ELSE IF method = toLowerCase(K_createIndex) THEN
        Call(DbOp("createIndex", "collection", colName,
                  LenientArg(args, K_createIndex, EmptyObject), NoLimit), "none")
    ELSE IF method = K_drop THEN
        Call(DbOp("drop", "collection", colName, NoArg, NoLimit), "none")
    ELSE Throw(Err("Unsupported collection method", method))

\* the same with the method name compared as typed (no toLowerCase)
CollectionPlanCaseSensitive(dbMethod) ==
    LET e1 == RunEnd(dbMethod, 1, "word")
        e2 == RunEnd(dbMethod, e1 + 1, "word")
        match == /\ e2 > e1 + 1
                 /\ \A j \in e2..Len(dbMethod) : ~IsLineTerminator(dbMethod[j])
    IN IF match
       THEN CollectionMethodPlan(SubSeq(dbMethod, 1, e1 - 1),
                                 SubSeq(dbMethod, e1 + 1, e2 - 1),
                                 SubSeq(dbMethod, e2, Len(dbMethod)))
       ELSE Throw(Err("Invalid collection method syntax", <<>>))

\* the same without the `if (match)` guard: match[1] of null raises a TypeError
CollectionPlanUnguarded(dbMethod) ==
    LET e1 == RunEnd(dbMethod, 1, "word")
        e2 == RunEnd(dbMethod, e1 + 1, "word")
        match == /\ e2 > e1 + 1
                 /\ \A j \in e2..Len(dbMethod) : ~IsLineTerminator(dbMethod[j])
    IN IF match
       THEN CollectionMethodPlan(SubSeq(dbMethod, 1, e1 - 1),
                                 toLowerCase(SubSeq(dbMethod, e1 + 1, e2 - 1)),
                                 SubSeq(dbMethod, e2, Len(dbMethod)))
       ELSE Throw(Err("Cannot read properties of null", <<>>))

\* dbMethod.match(/^([\w]+)\.([\w]+)(.*)$/i) and what follows (server.js 317-390)
CollectionPlan(dbMethod) ==
    LET e1 == RunEnd(dbMethod, 1, "word")
        e2 == RunEnd(dbMethod, e1 + 1, "word")
        match == /\ e2 > e1 + 1
                 /\ \A j \in e2..Len(dbMethod) : ~IsLineTerminator(dbMethod[j])
    IN IF match
       THEN CollectionMethodPlan(SubSeq(dbMethod, 1, e1 - 1),
                                 toLowerCase(SubSeq(dbMethod, e1 + 1, e2 - 1)),
                                 SubSeq(dbMethod, e2, Len(dbMethod)))
       ELSE Throw(Err("Invalid collection method syntax", <<>>))

\* db.adminCommand(...) / db.runCommand(...): the argument must JSON-parse
\* (server.js 392-403, 405-415)
StrictCommandPlan(dbMethod, name, scope, diagnostic) ==
    LET m == MatchCall(dbMethod, name)
    IN IF m.matched /\ JSONparse(m.group).ok
       THEN Call(DbOp("command", scope, <<>>, JSONparse(m.group), NoLimit), diagnostic)
       ELSE Throw(Err(diagnostic, <<>>))

\* db.createCollection("name") / db.dropCollection("name") (server.js 428-441)
QuotedNamePlan(dbMethod, name, fn, scope, diagnostic) ==
    LET m == MatchQuotedName(dbMethod, name)
    IN IF m.matched
       THEN Call(DbOp(fn, scope, m.group, NoArg, NoLimit), "none")
       ELSE Throw(Err(diagnostic, <<>>))

\* the db.-prefixed database methods (server.js 391-444)
DbMethodPlan(dbMethod) ==
    IF MatchAtCI(dbMethod, 1, K_adminCommand \o <<"(">>) THEN
        StrictCommandPlan(dbMethod, K_adminCommand, "admin", "Invalid adminCommand syntax")
    ELSE IF MatchAtCI(dbMethod, 1, K_runCommand \o <<"(">>) THEN
        StrictCommandPlan(dbMethod, K_runCommand, "db", "Invalid runCommand syntax")
    ELSE IF MatchAtCI(dbMethod, 1, K_listDatabasesCall) THEN
        Call(DbOp("listDatabases", "admin", <<>>, NoArg, NoLimit), "none")
    ELSE IF MatchAtCI(dbMethod, 1, K_listCollectionsCall) THEN
        Call(DbOp("listCollections", "db", <<>>, NoArg, NoLimit), "none")
    ELSE IF MatchAtCI(dbMethod, 1, K_statsCall) THEN
        Call(DbOp("stats", "db", <<>>, NoArg, NoLimit), "none")
    ELSE IF MatchAtCI(dbMethod, 1, K_serverStatusCall) THEN
        Call(DbOp("serverStatus", "admin", <<>>, NoArg, NoLimit), "none")
    ELSE IF MatchAtCI(dbMethod, 1, K_dropDatabaseCall) THEN
        Call(DbOp("dropDatabase", "db", <<>>, NoArg, NoLimit), "none")
    ELSE IF MatchAtCI(dbMethod, 1, K_createCollection \o <<"(">>) THEN
        QuotedNamePlan(dbMethod, K_createCollection, "createCollection", "db",
                       "Invalid createCollection syntax. Use: db.createCollection")
    ELSE IF MatchAtCI(dbMethod, 1, K_dropCollection \o <<"(">>) THEN
        QuotedNamePlan(dbMethod, K_dropCollection, "drop", "collection",
                       "Invalid dropCollection syntax. Use: db.dropCollection")
    ELSE Throw(Err("Unsupported db method", dbMethod))

\* createcollection <name> / dropcollection <name> (server.js 461-474)
KeywordNamePlan(lowerTrimmed, keyword, fn, scope, diagnostic) ==
    LET m == MatchKeywordName(lowerTrimmed, keyword)
    IN IF m.matched
       THEN Call(DbOp(fn, scope, m.group, NoArg, NoLimit), "none")
       ELSE Throw(Err(diagnostic, <<>>))

\* a keyword test with includes() in place of startsWith()
BarePlanIncludes(text, lowerTrimmed) ==
    IF \E i \in 1..Len(lowerTrimmed) : MatchAt(lowerTrimmed, i, K_listdatabases) THEN
        Call(DbOp("listDatabases", "admin", <<>>, NoArg, NoLimit), "none")
    ELSE Throw(Err("Unsupported command", text))

\* the commands without the db. prefix (server.js 445-478)
BarePlan(text, lowerTrimmed) ==
    IF lowerTrimmed = K_stats \/ lowerTrimmed = K_dbstats THEN
        Call(DbOp("stats", "db", <<>>, NoArg, NoLimit), "none")
    ELSE IF lowerTrimmed = K_serverstatus THEN
        Call(DbOp("serverStatus", "admin", <<>>, NoArg, NoLimit), "none")
    ELSE IF startsWith(lowerTrimmed, K_listdatabases) THEN
        Call(DbOp("listDatabases", "admin", <<>>, NoArg, NoLimit), "none")
    ELSE IF startsWith(lowerTrimmed, K_listcollections) THEN
        Call(DbOp("listCollections", "db", <<>>, NoArg, NoLimit), "none")
    ELSE IF startsWith(lowerTrimmed, K_dropdatabase) THEN
        Call(DbOp("dropDatabase", "db", <<>>, NoArg, NoLimit), "none")
    ELSE IF startsWith(lowerTrimmed, K_createcollection) THEN
        KeywordNamePlan(lowerTrimmed, K_createcollection, "createCollection", "db",
                        "Invalid createCollection syntax. Use: createCollection <name>")
    ELSE IF startsWith(lowerTrimmed, K_dropcollection) THEN
        KeywordNamePlan(lowerTrimmed, K_dropcollection, "drop", "collection",
                        "Invalid dropCollection syntax. Use: dropCollection <name>")
    ELSE Throw(Err("Unsupported command", text))

\* the catch (parseError) block: the shell-style grammar (server.js 306-479)
ShellPlan(text) ==
    LET trimmed == trim(text)
    IN IF MatchAtCI(trimmed, 1, K_db)
       THEN LET dbMethod == trim(substring(trimmed, 3))
            IN IF IsCollectionForm(dbMethod)
               THEN CollectionPlan(dbMethod)
               ELSE DbMethodPlan(dbMethod)
       ELSE BarePlan(text, toLowerCase(trimmed))

\* the structured form: JSON.parse(command); db.command(cmdObj) (server.js 303-305)
JsonPlan(text) ==
    Call(DbOp("command", "db", <<>>, JSONparse(text), NoLimit), "json")

----------------------------------------------------------------------------
(***************************************************************************)
(* The command texts a client submits.  A text is typed in parts: an       *)
(* optional scope marker, a collection name, a method or keyword, an       *)
(* optional parenthesised argument text and a suffix; the request carries  *)
(* their concatenation (part_000 executeCommand sends {command}).           *)
(***************************************************************************)

Input(form, scope, coll, method, parens, argsText, suffix) ==
    [form |-> form, scope |-> scope, coll |-> coll, method |-> method,
     parens |-> parens, argsText |-> argsText, suffix |-> suffix]

\* the text as typed
Render(inp) ==
    inp.scope
    \o (IF inp.coll # <<>> THEN inp.coll \o <<".">> ELSE <<>>)
    \o inp.method
    \o (IF inp.parens THEN <<"(">> \o inp.argsText \o <<")">> ELSE <<>>)
    \o inp.suffix

NoInput == Input("none", <<>>, <<>>, <<>>, FALSE, <<>>, <<>>)

ScopeMarkers ==
    { <<"d","b",".">>,
      <<"D","B",".">> }

CollectionNames ==
    { <<"u","s","e","r","s">>,
      <<"U","s","e","r","s">> }

CollectionMethods ==
    { <<"f","i","n","d">>,
      <<"F","I","N","D">>,
      <<"f","i","n","d","O","n","e">>,
      <<"c","o","u","n","t","D","o","c","u","m","e","n","t","s">>,
      <<"a","g","g","r","e","g","a","t","e">>,
      <<"c","r","e","a","t","e","I","n","d","e","x">>,
      <<"d","r","o","p">>,
      <<"f","r","o","b","n","i","c","a","t","e">> }

CollectionArgTexts ==
    { <<>>,
      <<"{","}">>,
      <<"{","\"","a","g","e","\"",":","{","\"","$","g","t","\"",":","2","1","}","}">>,
      <<"[","{","\"","$","m","a","t","c","h","\"",":","{","\"","a","\"",":","1","}","}","]">>,
      <<"{","\"","a","\"",":","1","}">>,
      <<"{","\"","a","\""," ",":"," ","1","}">>,
      <<"n","o","t","j","s","o","n">>,
      <<"n","o","t","\n","j","s","o","n">>,
      <<"l","i","m","i","t","(","3",")">>,
      <<"f","i","n","d","(","{","\"","a","\"",":","1","}",")">>,
      <<"{","\"","a","\"",":","\"","l","i","m","i","t","(","3",")","\"","}">>,
      <<" ">> }

CollectionSuffixes ==
    { <<>>,
      <<".","l","i","m","i","t","(","5",")">> }

AdminMethods ==
    { <<"a","d","m","i","n","C","o","m","m","a","n","d">>,
      <<"r","u","n","C","o","m","m","a","n","d">>,
      <<"l","i","s","t","D","a","t","a","b","a","s","e","s">>,
      <<"l","i","s","t","C","o","l","l","e","c","t","i","o","n","s">>,
      <<"s","t","a","t","s">>,
      <<"s","e","r","v","e","r","S","t","a","t","u","s">>,
      <<"d","r","o","p","D","a","t","a","b","a","s","e">>,
      <<"c","r","e","a","t","e","C","o","l","l","e","c","t","i","o","n">>,
      <<"d","r","o","p","C","o","l","l","e","c","t","i","o","n">>,
      <<"v","e","r","s","i","o","n">> }

AdminArgTexts ==
    { <<>>,
      <<"{","\"","p","i","n","g","\"",":","1","}">>,
      <<"n","o","t","j","s","o","n">>,
      <<"{","\"","p","i","n","g","\"",":","1">>,
      <<"5">>,
      <<"[","]">>,
      <<"\"","o","r","d","e","r","s","\"">>,
      <<"'","o","r","d","e","r","s","'">>,
      <<"o","r","d","e","r","s">> }

AdminSuffixes ==
    { <<>>,
      <<"x">> }

BareLeads ==
    { <<>>,
      <<" ">> }

BareKeywords ==
    { <<"s","t","a","t","s">>,
      <<"d","b","s","t","a","t","s">>,
      <<"S","T","A","T","S">>,
      <<"s","e","r","v","e","r","s","t","a","t","u","s">>,
      <<"l","i","s","t","d","a","t","a","b","a","s","e","s">>,
      <<"l","i","s","t","c","o","l","l","e","c","t","i","o","n","s">>,
      <<"d","r","o","p","d","a","t","a","b","a","s","e">>,
      <<"c","r","e","a","t","e","c","o","l","l","e","c","t","i","o","n">>,
      <<"d","r","o","p","C","o","l","l","e","c","t","i","o","n">>,
      <<"h","e","l","p">> }

BareSuffixes ==
    { <<>>,
      <<" ","o","r","d","e","r","s">>,
      <<" ","O","r","d","e","r","s">>,
      <<"x","y","z">>,
      <<"(",")">> }

JsonTexts ==
    { <<"{","\"","p","i","n","g","\"",":","1","}">>,
      <<" ","{","\"","p","i","n","g","\"",":"," ","1","}"," ">>,
      <<"5">>,
      <<"\"","s","t","a","t","s","\"">>,
      <<"[","]">>,
      <<"n","u","l","l">>,
      <<"{","\"","l","i","s","t","D","a","t","a","b","a","s","e","s","\"",":","1","}">> }

OtherTexts ==
    { <<>>,
      <<" ">>,
      <<"d","b",".">>,
      <<"d","b",".","u","s","e","r","s",".">>,
      <<"d","b",".","u","s","e","r","s",".",".","f","i","n","d","(",")">>,
      <<"d","b",".",".","f","i","n","d","(",")">> }

\* the argument list is absent, or present with one of the argument texts
ArgForms(texts) == {<<FALSE, <<>>>>} \cup {<<TRUE, t>> : t \in texts}

CollectionInputs ==
    { Input("collection", sc, co, me, af[1], af[2], su) :
        sc \in ScopeMarkers, co \in CollectionNames, me \in CollectionMethods,
        af \in ArgForms(CollectionArgTexts), su \in CollectionSuffixes }

AdminInputs ==
    { Input("admin", sc, <<>>, me, af[1], af[2], su) :
        sc \in ScopeMarkers, me \in AdminMethods,
        af \in ArgForms(AdminArgTexts), su \in AdminSuffixes }

BareInputs ==
    { Input("bare", le, <<>>, kw, FALSE, <<>>, su) :
        le \in BareLeads, kw \in BareKeywords, su \in BareSuffixes }

JsonInputs == { Input("json", <<>>, <<>>, t, FALSE, <<>>, <<>>) : t \in JsonTexts }

OtherInputs == { Input("other", <<>>, <<>>, t, FALSE, <<>>, <<>>) : t \in OtherTexts }

\* the examples the command panel offers (CommandPanel.tsx 26-39), each with
\* the JSON text of the document its argument denotes (empty when the example
\* shows no argument)
commonCommands ==
    {
      <<<<"d","b",".","a","d","m","i","n","C","o","m","m","a","n","d","(","{"," ","p","i","n","g",":"," ","1"," ","}",")">>,
        <<"{","\"","p","i","n","g","\"",":","1","}">>>>,
      <<<<"d","b",".","s","e","r","v","e","r","S","t","a","t","u","s","(",")">>,
        <<>>>>,
      <<<<"d","b",".","s","t","a","t","s","(",")">>,
        <<>>>>,
      <<<<"d","b",".","l","i","s","t","D","a","t","a","b","a","s","e","s","(",")">>,
        <<>>>>,
      <<<<"d","b",".","l","i","s","t","C","o","l","l","e","c","t","i","o","n","s","(",")">>,
        <<>>>>,
      <<<<"d","b",".","c","o","l","l","e","c","t","i","o","n","N","a","m","e",".","f","i","n","d","(",")",".","l","i","m","i","t","(","1","0",")">>,
        <<>>>>,
      <<<<"d","b",".","c","o","l","l","e","c","t","i","o","n","N","a","m","e",".","f","i","n","d","O","n","e","(",")">>,
        <<>>>>,
      <<<<"d","b",".","c","o","l","l","e","c","t","i","o","n","N","a","m","e",".","c","o","u","n","t","D","o","c","u","m","e","n","t","s","(",")">>,
        <<>>>>,
      <<<<"d","b",".","c","o","l","l","e","c","t","i","o","n","N","a","m","e",".","a","g","g","r","e","g","a","t","e","(","[","{"," ","$","g","r","o","u","p",":"," ","{"," ","_","i","d",":"," ","n","u","l","l",","," ","c","o","u","n","t",":"," ","{"," ","$","s","u","m",":"," ","1"," ","}"," ","}"," ","}","]",")">>,
        <<"[","{","\"","$","g","r","o","u","p","\"",":","{","\"","_","i","d","\"",":","n","u","l","l",",","\"","c","o","u","n","t","\"",":","{","\"","$","s","u","m","\"",":","1","}","}","}","]">>>>,
      <<<<"d","b",".","c","o","l","l","e","c","t","i","o","n","N","a","m","e",".","c","r","e","a","t","e","I","n","d","e","x","(","{"," ","f","i","e","l","d",":"," ","1"," ","}",")">>,
        <<"{","\"","f","i","e","l","d","\"",":","1","}">>>>,
      <<<<"d","b",".","c","o","l","l","e","c","t","i","o","n","N","a","m","e",".","d","r","o","p","(",")">>,
        <<>>>>,
      <<<<"d","b",".","r","u","n","C","o","m","m","a","n","d","(","{"," ","c","o","l","l","S","t","a","t","s",":"," ","\"","c","o","l","l","e","c","t","i","o","n","N","a","m","e","\""," ","}",")">>,
        <<"{","\"","c","o","l","l","S","t","a","t","s","\"",":","\"","c","o","l","l","e","c","t","i","o","n","N","a","m","e","\"","}">>>> }

ExampleInputs ==
    { Input("example", <<>>, <<>>, e[1], FALSE, e[2], <<>>) : e \in commonCommands }

\* command payloads that arrive as an object in the request body; the method
\* part holds the JSON text of the document
Documents ==
    { <<"{","\"","p","i","n","g","\"",":","1","}">>,
      <<"{","}">> }

DocumentInputs == { Input("document", <<>>, <<>>, t, FALSE, <<>>, <<>>) : t \in Documents }

Inputs == CollectionInputs \cup AdminInputs \cup BareInputs \cup JsonInputs \cup OtherInputs
             \cup DocumentInputs \cup ExampleInputs

----------------------------------------------------------------------------
(***************************************************************************)
(* POST /api/command (server.js 293-492), one request on a resolved        *)
(* connection.  The handler runs to its first await in one step and        *)
(* resumes when the driver call settles.                                   *)
(***************************************************************************)

\* the messages the database layer raises
DbMessages == {"MongoServerError: not authorized", "MongoServerError: ns not found"}

\* res.status(status).json({success, error, result, executionTime})
Response(status, success, error, hasResult, hasTime) ==
    [status |-> status, success |-> success, error |-> error,
     hasResult |-> hasResult, hasTime |-> hasTime]
NoResponse == Response(0, "absent", NoError, FALSE, FALSE)

\* a catch that answers like the other routes of the file, {error: e.message}
FailureWithoutFlag(err) == Response(500, "absent", err, FALSE, FALSE)

\* a catch that reports the elapsed time as the success response does
FailureWithTime(err) == Response(500, "false", err, FALSE, TRUE)

\* the outer catch: res.status(500).json({success: false, error: e.message})
Failure(err) == Response(500, "false", err, FALSE, FALSE)

InitCmd ==
    /\ rpc = "idle"
    /\ typed = NoInput
    /\ command = <<>>
    /\ dbCalls = <<>>
    /\ tryBlock = "none"
    /\ shellApplied = FALSE
    /\ response = NoResponse

\* carry out a plan: issue its call and await it, or throw to the outer catch
RunPlan(plan) ==
    IF plan.act = "call"
    THEN /\ dbCalls' = Append(dbCalls, plan.op)
         /\ tryBlock' = plan.inner
         /\ rpc' = "awaitDb"
         /\ response' = response
    ELSE /\ response' = Failure(plan.err)
         /\ rpc' = "done"
         /\ UNCHANGED <<dbCalls, tryBlock>>

\* String(command) of a command that is an object, as JSON.parse reads it
ObjectString == <<"[","o","b","j","e","c","t"," ","O","b","j","e","c","t","]">>

\* req.body.command as the handler's string operations see it: the text, or
\* for a structured document (form "document") its string conversion
Payload(inp) == IF inp.form = "document" THEN ObjectString ELSE Render(inp)

\* the handler from entry to its first await or its response (server.js 294-479)
CommandRequest(inp) ==
    /\ rpc = "idle"
    /\ typed' = inp
    /\ command' = Payload(inp)
    /\ IF command' = <<>>
       THEN /\ response' = Response(400, "absent", Err("Command is required", <<>>), FALSE, FALSE)
            /\ rpc' = "done"
            /\ UNCHANGED <<dbCalls, tryBlock, shellApplied>>
       ELSE IF inp.form = "document" /\ ~JSONparse(command').ok
       THEN \* catch (parseError): an object has no trim(), the TypeError
            \* reaches the outer catch (server.js 306-309, 486-490)
            /\ response' = Failure(Err("command.trim is not a function", <<>>))
            /\ rpc' = "done"
            /\ shellApplied' = TRUE
            /\ UNCHANGED <<dbCalls, tryBlock>>
       ELSE IF JSONparse(command').ok
       THEN /\ RunPlan(JsonPlan(command'))
            /\ UNCHANGED shellApplied
       ELSE /\ RunPlan(ShellPlan(command'))
            /\ shellApplied' = TRUE
    /\ UNCHANGED <<regVars, resVars, cliVars>>

\* the awaited driver call resolved: res.json({success: true, result, executionTime})
DbResolved ==
    /\ rpc = "awaitDb"
    /\ response' = Response(200, "true", NoError, TRUE, TRUE)
    /\ rpc' = "done"
    /\ UNCHANGED <<typed, command, dbCalls, tryBlock, shellApplied>>
    /\ UNCHANGED <<regVars, resVars, cliVars>>

\* the awaited driver call rejected with msg: the innermost enclosing catch runs
DbRejected(msg) ==
    /\ rpc = "awaitDb"
    /\ IF tryBlock = "json"
       THEN /\ shellApplied' = TRUE
            /\ RunPlan(ShellPlan(command))
       ELSE /\ response' = Failure(Err(IF tryBlock = "none" THEN msg ELSE tryBlock, <<>>))
            /\ rpc' = "done"
            /\ UNCHANGED <<dbCalls, tryBlock, shellApplied>>
    /\ UNCHANGED <<typed, command>>
    /\ UNCHANGED <<regVars, resVars, cliVars>>

\* the response was sent; the next request may arrive
RequestDone ==
    /\ rpc = "done"
    /\ rpc' = "idle"
    /\ typed' = NoInput
    /\ command' = <<>>
    /\ dbCalls' = <<>>
    /\ tryBlock' = "none"
    /\ shellApplied' = FALSE
    /\ response' = NoResponse
    /\ UNCHANGED <<regVars, resVars, cliVars>>

NextCmd ==
    \/ \E inp \in Inputs : CommandRequest(inp)
    \/ DbResolved
    \/ \E msg \in DbMessages : DbRejected(msg)
    \/ RequestDone

----------------------------------------------------------------------------
(***************************************************************************)
(* The client module (services/api, part_000 5-47): activeConfig,          *)
(* getHeaders and connect.  An absent optional field of a config is the    *)
(* empty text.                                                             *)
(***************************************************************************)

ConnectCalls == 1..NumConnects

\* the literals of the uri template (part_000 16, 32)
MONGOSCHEME == <<"m","o","n","g","o","d","b",":","/","/">>
LOCALHOST == <<"l","o","c","a","l","h","o","s","t">>
PORT27017 == <<"2","7","0","1","7">>
ADMINDB == <<"a","d","m","i","n">>
\* a connection string typed in uri mode
MONGOA == <<"m","o","n","g","o","d","b",":","/","/","a">>

Config(mode, uri, username, password, host, port, authDatabase) ==
    [mode |-> mode, uri |-> uri, username |-> username, password |-> password,
     host |-> host, port |-> port, authDatabase |-> authDatabase]

\* `let activeConfig = null` (part_000 6)
NoConfig == Config("none", <<>>, <<>>, <<>>, <<>>, <<>>, <<>>)

\* the configurations the connection dialog passes to connect
Configs ==
    { Config("uri", MONGOA, <<>>, <<>>, <<>>, <<>>, <<>>),
      Config("uri", <<>>, <<>>, <<>>, <<>>, <<>>, <<>>),
      Config("standard", MONGOA, <<>>, <<>>, <<>>, <<>>, <<>>),
      Config("standard", <<>>, <<"u">>, <<"p">>, <<"h">>, <<"9">>, <<"d">>),
      Config("standard", <<>>, <<"u">>, <<>>, <<"h">>, <<>>, <<>>) }

\* `a || b` on strings
OrElse(a, b) == IF a # <<>> THEN a ELSE b

\* a getHeaders whose default authDatabase differs from the one in connect
HeaderUriDrift(config) ==
    IF config.mode = "uri" /\ config.uri # <<>>
    THEN config.uri
    ELSE MONGOSCHEME
         \o (IF config.username # <<>>
             THEN config.username \o <<":">> \o config.password \o <<"@">>
             ELSE <<>>)
         \o OrElse(config.host, LOCALHOST) \o <<":">> \o OrElse(config.port, PORT27017)
         \o <<"/">> \o OrElse(config.authDatabase, <<"t","e","s","t">>)

\* the uri getHeaders puts in x-mongo-uri (part_000 11-17)
HeaderUri(config) ==
    IF config.mode = "uri" /\ config.uri # <<>>
    THEN config.uri
    ELSE MONGOSCHEME
         \o (IF config.username # <<>>
             THEN config.username \o <<":">> \o config.password \o <<"@">>
             ELSE <<>>)
         \o OrElse(config.host, LOCALHOST) \o <<":">> \o OrElse(config.port, PORT27017)
         \o <<"/">> \o OrElse(config.authDatabase, ADMINDB)

\* the uri connect posts to /api/connect (part_000 27-33)
ConnectUri(config) ==
    IF config.mode = "uri" /\ config.uri # <<>>
    THEN config.uri
    ELSE MONGOSCHEME
         \o (IF config.username # <<>>
             THEN config.username \o <<":">> \o config.password \o <<"@">>
             ELSE <<>>)
         \o OrElse(config.host, LOCALHOST) \o <<":">> \o OrElse(config.port, PORT27017)
         \o <<"/">> \o OrElse(config.authDatabase, ADMINDB)

\* an API call of the client: what became of it
ApiCall(outcome, config, uri, error) ==
    [outcome |-> outcome, config |-> config, uri |-> uri, error |-> error]
NoApiCall == ApiCall("none", NoConfig, <<>>, "")

InitCli ==
    /\ activeConfig = NoConfig
    /\ kpc = [k \in ConnectCalls |-> "idle"]
    /\ kcfg = [k \in ConnectCalls |-> NoConfig]
    /\ kuri = [k \in ConnectCalls |-> <<>>]
    /\ connected = {}
    /\ api = NoApiCall

\* connect(config) up to `await fetch('/api/connect', {body: {uri}})`
ConnectStart(k, config) ==
    /\ kpc[k] # "awaitFetch"
    /\ kpc' = [kpc EXCEPT ![k] = "awaitFetch"]
    /\ kcfg' = [kcfg EXCEPT ![k] = config]
    /\ kuri' = [kuri EXCEPT ![k] = ConnectUri(config)]
    /\ UNCHANGED <<activeConfig, connected, api>>
    /\ UNCHANGED <<regVars, cmdVars, resVars>>

\* the response is ok: activeConfig = config (part_000 46)
ConnectOk(k) ==
    /\ kpc[k] = "awaitFetch"
    /\ activeConfig' = kcfg[k]
    /\ connected' = connected \cup {<<kcfg[k], kuri[k]>>}
    /\ kpc' = [kpc EXCEPT ![k] = "resolved"]
    /\ kcfg' = [kcfg EXCEPT ![k] = NoConfig]
    /\ kuri' = [kuri EXCEPT ![k] = <<>>]
    /\ UNCHANGED api
    /\ UNCHANGED <<regVars, cmdVars, resVars>>

\* the response is not ok: connect throws (part_000 41-44)
ConnectFailed(k) ==
    /\ kpc[k] = "awaitFetch"
    /\ kpc' = [kpc EXCEPT ![k] = "threw"]
    /\ kcfg' = [kcfg EXCEPT ![k] = NoConfig]
    /\ kuri' = [kuri EXCEPT ![k] = <<>>]
    /\ UNCHANGED <<activeConfig, connected, api>>
    /\ UNCHANGED <<regVars, cmdVars, resVars>>

\* any API function: fetch(url, {headers: getHeaders()}); getHeaders throws
\* before fetch is called when activeConfig is null (part_000 8-23, 50)
ApiRequest ==
    /\ api' = IF activeConfig = NoConfig
              THEN ApiCall("threw", NoConfig, <<>>, "Not connected")
              ELSE ApiCall("sent", activeConfig, HeaderUri(activeConfig), "")
    /\ UNCHANGED <<activeConfig, kpc, kcfg, kuri, connected>>
    /\ UNCHANGED <<regVars, cmdVars, resVars>>

\* the state after the server module is loaded
Init == InitReg /\ InitCmd /\ InitRes /\ InitCli

SpecCmd == Init /\ [][NextCmd]_vars

NextReg ==
    \/ \E c \in Callers, uri \in Keys : GetClientMiss(c, uri) /\ UNCHANGED <<resVars, cliVars>>
    \/ \E c \in Callers, uri \in Keys : GetClientHit(c, uri) /\ UNCHANGED <<resVars, cliVars>>
    \/ \E c \in Callers : ConnectResolved(c) /\ UNCHANGED <<resVars, cliVars>>
    \/ \E c \in Callers : ConnectRejected(c) /\ UNCHANGED <<resVars, cliVars>>
    \/ \E h \in Handles : CloseHandler(h) /\ UNCHANGED <<resVars, cliVars>>
    \/ \E c \in Callers : CallDone(c) /\ UNCHANGED <<resVars, cliVars>>

SpecReg == Init /\ [][NextReg]_vars

NextRes ==
    \/ \E c \in Callers : WithMongoMissing(c) /\ UNCHANGED cliVars
    \/ \E c \in Callers, r \in Routes, uri \in Keys : RouteMiss(c, r, uri) /\ UNCHANGED cliVars
    \/ \E c \in Callers, r \in Routes, uri \in Keys : RouteHit(c, r, uri) /\ UNCHANGED cliVars
    \/ \E c \in Callers : RouteResolved(c) /\ UNCHANGED cliVars
    \/ \E c \in Callers, msg \in HandshakeMessages : RouteRejected(c, msg) /\ UNCHANGED cliVars
    \/ \E h \in Handles : RouteClose(h) /\ UNCHANGED cliVars
    \/ \E c \in Callers : RouteDone(c) /\ UNCHANGED cliVars

SpecRes == Init /\ [][NextRes]_vars

NextCli ==
    \/ \E k \in ConnectCalls, config \in Configs : ConnectStart(k, config)
    \/ \E k \in ConnectCalls : ConnectOk(k)
    \/ \E k \in ConnectCalls : ConnectFailed(k)
    \/ ApiRequest

SpecCli == Init /\ [][NextCli]_vars

----------------------------------------------------------------------------
(***************************************************************************)
(* Claims about the connection cache (checked under SpecReg).              *)
(***************************************************************************)

\* connection attempts for key k whose connect() is still pending
PendingAttempts(k) == {h \in Handles : hkey[h] = k /\ hstate[h] = "connecting"}

\* handles opened for key k that have not closed
OpenHandles(k) == {h \in Handles : hkey[h] = k /\ hstate[h] = "open"}

\* C1: getClient calls for one key that overlap while the first connect is
\* pending cause one connection attempt: no key ever has two MongoClient
\* objects connecting at once.
C1_OneAttemptPerKey ==
    \A k \in Keys : Cardinality(PendingAttempts(k)) <= 1

\* C2: two getClient calls for one uri that were pending together and both
\* succeeded returned the identical connection object.
C2_SameHandleForOverlapping ==
    \A p \in overlapped :
        (cpc[p[1]] = "returned" /\ cpc[p[2]] = "returned") => cret[p[1]] = cret[p[2]]

\* C3: for every key at most one opened and not yet closed handle exists,
\* whether or not the map points to it.
C3_AtMostOneOpenPerKey ==
    \A k \in Keys : Cardinality(OpenHandles(k)) <= 1

\* C4: after the close notification of the handle cached for key k, the next
\* getClient(k) makes a fresh connection attempt, and no getClient call ever
\* returns a handle that has closed.
C4_FreshAttemptAfterClose ==
    [][\A c \in Callers :
          /\ (cpc[c] = "idle" /\ cpc'[c] # "idle" /\ closedSinceGet[ckey'[c]])
                => (cpc'[c] = "awaitConnect" /\ hstate'[cclient'[c]] = "connecting")
          /\ (cpc[c] # "returned" /\ cpc'[c] = "returned")
                => hstate'[cret'[c]] = "open"]_vars

----------------------------------------------------------------------------
(***************************************************************************)
(* Claims about the command interpreter (checked under SpecCmd).           *)
(***************************************************************************)

\* the request has been taken up (its text is bound)
Received == rpc # "idle"

\* the method of a collection-scoped text, as the case-insensitive match reads it
TypedMethod == toLowerCase(typed.method)

LenientMethods ==
    { toLowerCase(K_find), toLowerCase(K_findOne), toLowerCase(K_countDocuments),
      toLowerCase(K_aggregate), toLowerCase(K_createIndex) }

\* the operation each lenient method stands for, and its empty default
KindOf(method) ==
    IF method = toLowerCase(K_find) THEN "find"
    ELSE IF method = toLowerCase(K_findOne) THEN "findOne"
    ELSE IF method = toLowerCase(K_countDocuments) THEN "countDocuments"
    ELSE IF method = toLowerCase(K_aggregate) THEN "aggregate"
    ELSE "createIndex"
DefaultOf(method) == IF method = toLowerCase(K_aggregate) THEN EmptyArray ELSE EmptyObject

\* db.<collection>.<method>(<argsText>) with one of the five lenient methods
LenientCall ==
    /\ Received
    /\ typed.form = "collection"
    /\ typed.parens
    /\ TypedMethod \in LenientMethods

\* the text has a chained .limit(N) after the argument list
HasChainedLimit == MatchLimit(typed.suffix).matched

\* the parser rejects the text: it is not JSON and the shell grammar throws
Unrecognized(text) == ~JSONparse(text).ok /\ ShellPlan(text).act = "throw"

\* C5: when the whole text parses as JSON the document is executed once with
\* db.command and the shell-style grammar is never applied to the text,
\* whatever the outcome of the execution.
C5_JsonFormStopsThere ==
    (Received /\ JSONparse(command).ok)
        => /\ ~shellApplied
           /\ dbCalls = <<JsonPlan(command).op>>

\* C6: when a database call was issued and failed, the response is
\* {success:false} with the message the database layer raised, not a parser
\* diagnostic.
C6_DbFailureSurfaced ==
    (rpc = "done" /\ dbCalls # <<>> /\ response.success # "true")
        => /\ response.success = "false"
           /\ response.error.msg \in DbMessages

\* C7: for db.<collection>.<method>(<argsText>) whose argsText is valid JSON,
\* the operation dispatched is the method's, on that collection, with the
\* parsed argsText as its argument (and the chained limit for find).
C7_ParsedArgIsDispatched ==
    (LenientCall /\ JSONparse(typed.argsText).ok)
        => /\ Len(dbCalls) = 1
           /\ dbCalls[1].fn = KindOf(TypedMethod)
           /\ dbCalls[1].col = typed.coll
           /\ dbCalls[1].arg = JSONparse(typed.argsText)

\* C8: db.adminCommand(...) / db.runCommand(...) issue a database operation
\* only when the text in the parentheses parses as a JSON object; otherwise
\* the command is rejected with a parser diagnostic and nothing is issued.
C8_StrictObjectArgument ==
    (Received /\ typed.form = "admin"
              /\ TypedMethod \in {toLowerCase(K_adminCommand), toLowerCase(K_runCommand)}
              /\ ~(typed.parens /\ JSONparse(typed.argsText).type = "object"))
        => /\ dbCalls = <<>>
           /\ rpc = "done"
           /\ response.success = "false"
           /\ response.error.msg \in ParserDiagnostics

\* C9: for the five lenient methods an argsText that is empty or not valid
\* JSON never rejects the command: it is dispatched with the empty default,
\* and find keeps limit 10 when no .limit(N) is chained.
C9_LenientDefault ==
    (LenientCall /\ (trim(typed.argsText) = <<>> \/ ~JSONparse(typed.argsText).ok))
        => /\ Len(dbCalls) = 1
           /\ dbCalls[1].fn = KindOf(TypedMethod)
           /\ dbCalls[1].arg = DefaultOf(TypedMethod)
           /\ (TypedMethod = toLowerCase(K_find) /\ ~HasChainedLimit)
                 => dbCalls[1].limit = DefaultLimit

C12_ForwardOnly ==
    [][/\ rpc = "awaitDb" => /\ rpc' = "done"
                             /\ shellApplied' = shellApplied
                             /\ dbCalls' = dbCalls
       /\ rpc = "done" => rpc' \in {"done", "idle"}]_vars

\* C13: a request issues at most one database operation, whatever the text
\* and whatever the outcome of the operation.
C13_AtMostOneOperation == Len(dbCalls) <= 1

\* the operation of a JSON command failed, the catch ran the shell grammar on
\* the text, and the request ended with the one operation it had issued
C13_Witness ==
    /\ rpc = "done"
    /\ JSONparse(command).ok
    /\ shellApplied
    /\ response.success = "false"
    /\ Len(dbCalls) = 1

\* the ParsedCommand variant the handler's branches give a text (server.js 301-479)
Classify(text) ==
    IF JSONparse(text).ok THEN "RawCommand"
    ELSE IF ShellPlan(text).act = "throw" THEN "Unrecognized"
    ELSE IF MatchAtCI(trim(text), 1, K_db)
            /\ IsCollectionForm(trim(substring(trim(text), 3))) THEN "CollectionAction"
    ELSE "AdminAction"

CollectionKinds ==
    {"find", "findOne", "countDocuments", "aggregate", "createIndex", "drop"}
AdminKinds ==
    {"command", "listDatabases", "listCollections", "stats", "serverStatus",
     "dropDatabase", "createCollection", "drop"}

\* C14: every text is treated as exactly one variant: a RawCommand, an
\* AdminAction or a CollectionAction has issued its one operation, an
\* Unrecognized text has issued none and is answered with a diagnostic of the
\* parser; no other error is raised by the classification.
C14_ParsingTotal ==
    (Received /\ typed.form # "document")
        => /\ Classify(command) = "Unrecognized"
                => /\ dbCalls = <<>>
                   /\ rpc = "done"
                   /\ response.error.msg \in ParserDiagnostics \cup {"Command is required"}
           /\ Classify(command) = "RawCommand"
                => /\ Len(dbCalls) = 1
                   /\ dbCalls[1] = JsonPlan(command).op
           /\ Classify(command) = "CollectionAction"
                => /\ Len(dbCalls) = 1
                   /\ dbCalls[1].scope = "collection"
                   /\ dbCalls[1].fn \in CollectionKinds
                   /\ dbCalls[1].col # <<>>
           /\ Classify(command) = "AdminAction"
                => /\ Len(dbCalls) = 1
                   /\ dbCalls[1].fn \in AdminKinds
           /\ (rpc = "done" /\ response.success # "true")
                => response.error.msg \in
                       ParserDiagnostics \cup DbMessages \cup {"Command is required"}

\* a collection-scoped text whose argument spans two lines has been classified
C14_Witness ==
    /\ rpc = "done"
    /\ typed.form = "collection"
    /\ \E i \in 1..Len(typed.argsText) : IsLineTerminator(typed.argsText[i])
    /\ Classify(command) = "Unrecognized"
    /\ response.error.msg = "Invalid collection method syntax"

\* the text is `keyword <name>`: the keyword, white space, one identifier
IsKeywordName(lowerTrimmed, keyword) ==
    LET w == Len(keyword) + 1
        a == RunEnd(lowerTrimmed, w, "space")
    IN /\ startsWith(lowerTrimmed, keyword)
       /\ a > w
       /\ a <= Len(lowerTrimmed)
       /\ RunEnd(lowerTrimmed, a, "word") = Len(lowerTrimmed) + 1

\* the bare texts the grammar lists
IsListedBare(lowerTrimmed) ==
    \/ lowerTrimmed \in {K_stats, K_dbstats, K_serverstatus, K_listdatabases,
                         K_listcollections, K_dropdatabase}
    \/ IsKeywordName(lowerTrimmed, K_createcollection)
    \/ IsKeywordName(lowerTrimmed, K_dropcollection)

\* C15: a text without the scope marker issues an operation only if, trimmed
\* and lower-cased, it is one of the fixed keywords or `createcollection
\* <name>` / `dropcollection <name>`; any other such text issues nothing.
C15_BareKeywordsExact ==
    (Received /\ typed.form = "bare" /\ ~IsListedBare(toLowerCase(trim(command))))
        => dbCalls = <<>>

\* the bare text is `createcollection <name>` or `dropcollection <name>`, the
\* keyword in any case, with one space before the name
BareNameCommand ==
    /\ Received
    /\ typed.form = "bare"
    /\ toLowerCase(typed.method) \in {K_createcollection, K_dropcollection}
    /\ typed.suffix # <<>>
    /\ typed.suffix[1] = " "
    /\ \A i \in 2..Len(typed.suffix) : IsWord(typed.suffix[i])

\* C18: for the bare commands createcollection <name> and dropcollection
\* <name> the operation is issued on the name exactly as typed after the
\* keyword, character for character.
C18_NameAsTyped ==
    BareNameCommand
        => /\ Len(dbCalls) = 1
           /\ dbCalls[1].fn = (IF toLowerCase(typed.method) = K_createcollection
                               THEN "createCollection" ELSE "drop")
           /\ dbCalls[1].col = Tail(typed.suffix)

\* db.<collection>.find(<argsText>)<suffix> has issued its operation
FindCall ==
    /\ Received
    /\ typed.form = "collection"
    /\ typed.parens
    /\ TypedMethod = toLowerCase(K_find)
    /\ dbCalls # <<>>

\* C19: the limit of a find is N exactly when .limit(N) is chained after the
\* argument list and 10 otherwise; the text inside the parentheses of find
\* never sets it.
C19_LimitOnlyFromChain ==
    FindCall
        => dbCalls[1].limit = (IF HasChainedLimit
                               THEN parseInt(MatchLimit(typed.suffix).group)
                               ELSE DefaultLimit)

\* the six collection methods the grammar supports, as the handler compares them
SupportedMethods ==
    { toLowerCase(K_find), toLowerCase(K_findOne), toLowerCase(K_countDocuments),
      toLowerCase(K_aggregate), toLowerCase(K_createIndex), K_drop }

\* C20: a collection-scoped command whose method is none of the six supported
\* ones issues no operation and is answered with the diagnostic that names the
\* method (and lists the six supported ones).
C20_UnsupportedMethodNamed ==
    (Received /\ typed.form = "collection" /\ TypedMethod \notin SupportedMethods)
        => /\ dbCalls = <<>>
           /\ rpc = "done"
           /\ response.success = "false"
           /\ response.error = Err("Unsupported collection method", TypedMethod)

----------------------------------------------------------------------------
(***************************************************************************)
(* Claims about the resolver (checked under SpecRes).                      *)
(***************************************************************************)

\* the request in slot c came without the x-mongo-uri header
MissingIdentity(c) == route[c] = "withMongo" /\ ckey[c] = NoKey

\* the request in slot c was rejected because connect() failed
ConnectionFailure(c) == route[c] # "none" /\ cpc[c] = "threw"

\* what C16 requires of a state
ResolverFailsFast ==
    \A c \in Callers :
        route[c] = "withMongo"
            => /\ nextCalled[c] => /\ cpc[c] = "returned"
                                   /\ dbClient[c] = cret[c]
                                   /\ dbClient[c] \in Handles
                                   /\ hkey[dbClient[c]] = ckey[c]
                                   /\ sent[c] = <<>>
               /\ MissingIdentity(c)
                    => /\ ~nextCalled[c]
                       /\ cpc[c] = "idle"
                       /\ cclient[c] = NoClient
                       /\ sent[c] = <<Reply(400, "Missing MongoDB URI header")>>
               /\ ConnectionFailure(c)
                    => /\ ~nextCalled[c]
                       /\ Len(sent[c]) = 1
                       /\ sent[c][1].status = 500

\* C16: withMongo invokes the downstream handler only after getClient returned
\* a handle for the request's uri; without a uri the request is answered 400
\* and neither the cache nor any MongoClient is touched; when connect() fails
\* it is answered 500; in both cases next() is not invoked and exactly one
\* response is sent.
C16_ResolverFailsFast ==
    [][/\ ResolverFailsFast'
       /\ \A c \in Callers :
            (~MissingIdentity(c) /\ MissingIdentity(c)') => UNCHANGED regVars]_vars

\* one request was rejected for its missing uri while another was rejected
\* for a failed connect()
C16_Witness ==
    \E c, d \in Callers :
        /\ MissingIdentity(c)
        /\ sent[c] # <<>>
        /\ route[d] = "withMongo"
        /\ ConnectionFailure(d)
        /\ sent[d] # <<>>
        /\ ~nextCalled[d]

\* C17 as stated: every ConnectionFailure, at /api/connect or in withMongo, is
\* answered with the message of the handshake error.
C17_CauseSurfacedAsStated ==
    \A c \in Callers :
        ConnectionFailure(c) => sent[c] = <<Reply(500, cerr[c])>>

\* C17 amended: a ConnectionFailure at /api/connect is answered 500 with the
\* message of the handshake error; withMongo answers 500 with the fixed
\* message 'Failed to connect to MongoDB instance'.
C17_CauseSurfacedByConnect ==
    \A c \in Callers :
        ConnectionFailure(c)
            => /\ route[c] = "connect" => sent[c] = <<Reply(500, cerr[c])>>
               /\ route[c] = "withMongo"
                    => sent[c] = <<Reply(500, "Failed to connect to MongoDB instance")>>

\* /api/connect has answered a failed handshake
C17_Witness ==
    \E c \in Callers :
        /\ route[c] = "connect"
        /\ ConnectionFailure(c)
        /\ cerr[c] \in HandshakeMessages
        /\ sent[c] = <<Reply(500, cerr[c])>>

----------------------------------------------------------------------------
(***************************************************************************)
(* Further claims about the command interpreter (checked under SpecCmd).   *)
(***************************************************************************)

\* the method name in upper case
toUpperCase(s) ==
    [i \in 1..Len(s) |->
        IF s[i] \in Range(LowerLetters)
        THEN UpperLetters[CHOOSE j \in DOMAIN LowerLetters : LowerLetters[j] = s[i]]
        ELSE s[i]]

\* the typed method name in its other letter cases
CaseVariants(method) == {method, toLowerCase(method), toUpperCase(method)}

\* C21: a collection-scoped command has the same outcome as the commands that
\* differ from it only in the letter case of the method name - the same
\* operation, collection and arguments, or the same rejection - and the
\* collection name is passed on in the case in which it was typed.
C21_MethodCaseInsensitive ==
    (Received /\ typed.form = "collection")
        => \A m \in CaseVariants(typed.method) :
              LET other == ShellPlan(Render([typed EXCEPT !.method = m]))
              IN IF dbCalls # <<>>
                 THEN /\ other.act = "call"
                      /\ other.op = dbCalls[1]
                      /\ dbCalls[1].col = typed.coll
                 ELSE /\ other.act = "throw"
                      /\ other.err = response.error

\* FIND typed in capitals on the collection Users has issued a find on Users
C21_Witness ==
    /\ Received
    /\ typed.form = "collection"
    /\ typed.method = toUpperCase(K_find)
    /\ typed.coll = <<"U","s","e","r","s">>
    /\ Len(dbCalls) = 1
    /\ dbCalls[1].fn = "find"
    /\ dbCalls[1].col = <<"U","s","e","r","s">>

\* C22: a command that arrives as a structured document (an object) is
\* executed verbatim with db.command, as the JSON text of the document is.
C22_DocumentPayloadExecuted ==
    (Received /\ typed.form = "document")
        => dbCalls = <<JsonPlan(typed.method).op>>

----------------------------------------------------------------------------
(***************************************************************************)
(* Further claims about the connection cache (C23-C25 under SpecReg, C26   *)
(* under SpecRes).                                                         *)
(***************************************************************************)

\* C23: the close notification of handle h removes the entry of h's key only
\* if the entry holds h; an entry that holds another handle stays in place.
C23_CloseRemovesOwnEntryOnly ==
    [][\A h \in Handles :
          (hstate[h] = "open" /\ hstate'[h] = "closed" /\ clients[hkey[h]] # h)
              => clients'[hkey[h]] = clients[hkey[h]]]_vars

\* C24: when connect() rejects, getClient throws and the map is left exactly
\* as it was; a later getClient for a key with a failed attempt and no entry
\* makes a new attempt with a new MongoClient, and no call returns a failed
\* handle.
C24_FailureLeavesRegistry ==
    [][\A c \in Callers :
          /\ (cpc[c] = "awaitConnect" /\ cpc'[c] = "threw") => clients' = clients
          /\ (/\ cpc[c] = "idle"
              /\ cpc'[c] # "idle"
              /\ clients[ckey'[c]] = NoClient
              /\ \E h \in Handles : hkey[h] = ckey'[c] /\ hstate[h] = "failed")
                => /\ cpc'[c] = "awaitConnect"
                   /\ hstate[cclient'[c]] = "unused"
                   /\ hstate'[cclient'[c]] = "connecting"
          /\ (cpc[c] # "returned" /\ cpc'[c] = "returned")
                => hstate'[cret'[c]] = "open"
          /\ \A k \in Keys : clients'[k] # NoClient => hstate'[clients'[k]] = "open"]_vars

\* a handshake for a key failed, the map has no entry for the key, and a
\* second MongoClient is connecting for it
C24_Witness ==
    \E c, d \in Callers :
        /\ cpc[c] = "threw"
        /\ hstate[cclient[c]] = "failed"
        /\ clients[ckey[c]] = NoClient
        /\ cpc[d] = "awaitConnect"
        /\ ckey[d] = ckey[c]
        /\ cclient[d] > cclient[c]
        /\ hstate[cclient[d]] = "connecting"

\* the call in slot c returned the cached entry (hit path)
ReturnedFromCache(c) == cpc[c] = "returned" /\ cclient[c] = NoClient

\* C25: calls made while the map holds an entry for the key return the
\* entry's handle without a connection attempt, and while that handle is open
\* every such call returns the identical handle: two cache hits for one key
\* whose handles are both still open hold the same handle.
C25_HitsReturnSameHandle ==
    \A c, d \in Callers :
        (/\ ReturnedFromCache(c)
         /\ ReturnedFromCache(d)
         /\ ckey[c] = ckey[d]
         /\ hstate[cret[c]] = "open"
         /\ hstate[cret[d]] = "open")
            => cret[c] = cret[d]

\* C26: an entry of the map is removed only by the close notification of the
\* handle it holds; the end of a request leaves the map and the handles as
\* they are.
C26_RemovedOnlyByOwnClose ==
    [][/\ \A k \in Keys :
            (clients[k] # NoClient /\ clients'[k] = NoClient)
                => (hstate[clients[k]] = "open" /\ hstate'[clients[k]] = "closed")
       /\ \A c \in Callers :
            (route[c] # "none" /\ route'[c] = "none")
                => (clients' = clients /\ hstate' = hstate)]_vars

----------------------------------------------------------------------------
(***************************************************************************)
(* Claims C27-C29 about the command interpreter (checked under SpecCmd).   *)
(***************************************************************************)

\* the db.-prefixed spelling of a bare command
DbFormOf(inp) ==
    LET kw == toLowerCase(inp.method)
        quoted == <<"(", "\"">> \o Tail(inp.suffix) \o <<"\"", ")">>
    IN K_db \o
       (IF kw = K_stats \/ kw = K_dbstats THEN K_statsCall
        ELSE IF kw = K_serverstatus THEN K_serverStatusCall
        ELSE IF kw = K_listdatabases THEN K_listDatabasesCall
        ELSE IF kw = K_listcollections THEN K_listCollectionsCall
        ELSE IF kw = K_dropdatabase THEN K_dropDatabaseCall
        ELSE IF kw = K_createcollection THEN K_createCollection \o quoted
        ELSE K_dropCollection \o quoted)

\* the bare text is one of the seven commands that have a db.-prefixed form
HasDbForm ==
    /\ Received
    /\ typed.form = "bare"
    /\ \/ /\ typed.suffix = <<>>
          /\ toLowerCase(typed.method) \in {K_stats, K_dbstats, K_serverstatus,
                                            K_listdatabases, K_listcollections,
                                            K_dropdatabase}
       \/ BareNameCommand

\* C27: the bare-keyword form of a command dispatches the operation, scope
\* and arguments that its db.-prefixed form dispatches; a JSON text and
\* runCommand go to the default database, adminCommand to the admin database.
C27_SameOperationEitherSyntax ==
    /\ HasDbForm
          => /\ Len(dbCalls) = 1
             /\ ShellPlan(DbFormOf(typed)).act = "call"
             /\ dbCalls[1] = ShellPlan(DbFormOf(typed)).op
    /\ (Received /\ typed.form = "json")
          => (dbCalls # <<>> /\ dbCalls[1].fn = "command" /\ dbCalls[1].scope = "db")
    /\ (Received /\ typed.form = "admin" /\ dbCalls # <<>>)
          => /\ TypedMethod = toLowerCase(K_runCommand)
                  => (dbCalls[1].fn = "command" /\ dbCalls[1].scope = "db")
             /\ TypedMethod = toLowerCase(K_adminCommand)
                  => (dbCalls[1].fn = "command" /\ dbCalls[1].scope = "admin")

\* C28: a collection-scoped operation, drop in particular, is issued only
\* when the method name is immediately followed by a parenthesised argument
\* list; db.<collection>.<method> without one issues nothing.
C28_ParenthesesRequired ==
    (Received /\ typed.form = "collection" /\ ~typed.parens)
        => /\ dbCalls = <<>>
           /\ rpc = "done"
           /\ response.success = "false"

\* C29: every example of the command panel is accepted - one operation is
\* issued for it - and the argument the example shows is the argument of that
\* operation.
C29_ExamplesAccepted ==
    (Received /\ typed.form = "example")
        => /\ Len(dbCalls) = 1
           /\ typed.argsText # <<>> => dbCalls[1].arg = JSONparse(typed.argsText)

----------------------------------------------------------------------------
(***************************************************************************)
(* Claim about the client (checked under SpecCli).                         *)
(***************************************************************************)

\* what C30 requires of a state
HeaderMatchesConnect ==
    /\ activeConfig # NoConfig => <<activeConfig, HeaderUri(activeConfig)>> \in connected
    /\ api.outcome = "sent" => <<api.config, api.uri>> \in connected
    /\ api.outcome = "threw" => api.error = "Not connected"
    /\ connected = {} => api.outcome # "sent"

\* C30: once a connect(config) has succeeded every API request carries the
\* x-mongo-uri that was posted to /api/connect for the active config; a
\* connect that fails leaves activeConfig as it was; before any successful
\* connect an API call throws 'Not connected' and sends nothing.
C30_HeaderMatchesConnect ==
    [][/\ HeaderMatchesConnect'
       /\ \A k \in ConnectCalls :
            (kpc[k] = "awaitFetch" /\ kpc'[k] = "threw")
                => activeConfig' = activeConfig]_vars

\* a request was sent for a config connected in standard mode with the
\* default authDatabase, the only connect that has succeeded, and another
\* connect has failed
C30_Witness ==
    /\ api.outcome = "sent"
    /\ api.config.mode = "standard"
    /\ api.config.authDatabase = <<>>
    /\ <<api.config, api.uri>> \in connected
    /\ activeConfig = api.config
    /\ Cardinality(connected) = 1
    /\ \E k \in ConnectCalls : kpc[k] = "threw"

====
